---------------------------- MODULE Spec2Model ----------------------------
(***************************************************************************)
(* The asynchronous research-task pipeline of the bookstore server:        *)
(*   app/api/endpoints/research.py    research_book_async,                 *)
(*                                    background_task_research, the task   *)
(*                                    endpoints                            *)
(*   app/api/endpoints/books.py       the books endpoints                  *)
(*   app/mongo_models/research_task.py  ResearchTask (the TaskStore)       *)
(*   app/mongo_models/book_research.py  BookResearch (the ResearchStore)   *)
(*   app/mongo_models/models.py       init_beanie_models                   *)
(*                                                                         *)
(* The server is one asyncio event loop.  A coroutine runs without         *)
(* interruption between two awaits, so every action below is the code      *)
(* from the return of one awaited call to the start of the next one.  The  *)
(* pc of a handler or of a job names the call it is currently awaiting.    *)
(* Every awaited external call (LLM provider, embedding provider, MongoDB) *)
(* either returns or raises; which of the two is an input of the action.   *)
(***************************************************************************)
EXTENDS Integers, Sequences, FiniteSets, TLC

(* ------------------------------ bounds -------------------------------- *)

\* Number of research_book_async submissions.
MaxBatches == 2

\* Number of batch items (TaskRecords requested) over all submissions.
MaxTasks == 2

\* Number of awaited calls that misbehave in one run: a call that raises, or
\* an embedding of a length the index was not configured for.
MaxFaults == 2

\* Number of requests of other clients, besides the research_book_async
\* submissions and the one request that is followed to its answer, in one
\* run.
MaxRequests == 1

\* Number of awaited calls that misbehave in one run in which a client's
\* request is followed to its answer.
MaxClientFaults == 1

\* Number of store initialisations (init_beanie_models calls) that may
\* overlap.
MaxInits == 3

\* Number of grounding chunks in the response of the search stage.
MaxChunks == 3

\* Number of entries in the ResearchStore when a vector search is made.
MaxEntries == 7

\* Largest `limit` (top_n) of a vector search.
MaxLimit == 2

(* ----------------------------- constants ------------------------------ *)

\* numDimensions of the 'vector_index' search index.
NumDimensions == 768

\* A vector length the index was not configured for.
WrongDimensions == 3

\* other_info: Optional[str] = None
None == "None"

\* TaskStatusEnum
WORKING == "working"
SUCCESS == "success"
FAILURE == "failure"

\* The (title, other_info) pairs clients submit (SingleBookResearchRequest):
\* the k-th item submitted overall, one with and one without other_info in
\* turn.
Book(k) ==
    IF k % 2 = 1
    THEN [title |-> "Dune", other_info |-> "Frank Herbert"]
    ELSE [title |-> "1984", other_info |-> None]

\* An awaited call returns or raises.
CallOutcomes == {"ok", "raise"}

\* A write of one document (research.insert() of insert_book, task.save())
\* returns, raises without having written, or raises after the store applied
\* the write (the acknowledgement is lost).
WriteOutcomes == {"ok", "raise", "applied_raise"}

\* The lengths of the vector the embedding provider may return.  A vector is
\* modelled by its number of values, which is all the pipeline could look at:
\* it passes the vector on unread.
EmbeddingLengths == {NumDimensions, WrongDimensions}

(* ------------------------------- state -------------------------------- *)

VARIABLES
    taskStore,      \* collection research_tasks: task id -> TaskRecord
    researchStore,  \* collection book_research: entry id -> ResearchStoreEntry
    searchIndexes,  \* names of the search indexes of book_research
    batches,        \* one record per research_book_async request, in arrival order
    jobs,           \* task id -> the background_task_research call for that task
    faults,         \* awaited calls that have misbehaved so far
    requests,       \* the other requests of clients, in arrival order, each where it is
    inits,          \* init_beanie_models call -> where it is and what it has seen
    research,       \* a research_book call: its await, what it got and returned
    search,         \* the last vector search: its arguments and what it gave back
    reply           \* what the client whose request is followed was answered

vars == <<taskStore, researchStore, searchIndexes,
          batches, jobs, faults, requests, inits, research, search, reply>>

\* The state of the research pipeline but the search indexes.
pipeline == <<taskStore, researchStore, batches, jobs, faults, requests>>

\* The variables the steps of the research pipeline leave alone.
others == <<inits, research, search, reply>>

(* ------------------------------ helpers ------------------------------- *)

\* The document collection f with document v stored under id k.
Put(f, k, v) == [i \in DOMAIN f \cup {k} |-> IF i = k THEN v ELSE f[i]]

\* The document collection f without the document of id k.
Remove(f, k) == [i \in DOMAIN f \ {k} |-> f[i]]

\* The empty collection.
Empty == [i \in {} |-> 0]

\* The batch of the n items that follow the `first` items submitted before.
Books(first, n) == [k \in 1..n |-> Book(first + k)]

\* The id the store assigns to the TaskRecord of item i of batch B.  Ids are
\* opaque and unique; the model numbers the records in the order their items
\* were submitted.
TaskId(B, i) == B.first + i

\* The id the store assigns to the entry the job of task t inserts (opaque
\* and unique; the model names it after the task).
BookId(t) == t

\* Number of batch items submitted so far.
Submitted ==
    LET RECURSIVE Sum(_)
        Sum(i) == IF i = 0 THEN 0 ELSE Len(batches[i].books) + Sum(i - 1)
    IN Sum(Len(batches))


(* --------------------- the provider's results ------------------------- *)

\* BookResearchService.research_book on success: the structured record of the
\* requested book and the deduplicated sources of the search stage.
ResearchBook(req) ==
    [info |-> [title |-> req.title], sources |-> <<>>]

\* The local research_output of a job before research_book has returned and
\* after the job has ended: no output.
NoResearchOutput ==
    [info |-> [title |-> None], sources |-> <<>>]

\* The in-memory ResearchTask document of a request with the given status
\* (started_at, a timestamp, is left out).
ResearchTask(req, status) ==
    [title |-> req.title, other_info |-> req.other_info, status |-> status]

\* BookResearch(...): the document insert_book builds from its arguments.
BookResearch(provided_title, provided_other_info, research_output, embedding) ==
    [provided_title      |-> provided_title,
     provided_other_info |-> provided_other_info,
     research_output     |-> research_output,
     embedding           |-> embedding]

(* -------------------- BookResearchService ----------------------------- *)

\* chunk.web.uri and chunk.web.title of the provider's grounding chunks; both
\* are optional in the provider's response type.
Urls == {"https://a.example", "https://b.example", None}
Titles == {"a.example", "b.example", None}

\* A grounding chunk: a web chunk with its uri and title, or another kind of
\* chunk (chunk.web is None).
Chunks ==
    {[web |-> FALSE, uri |-> None, title |-> None]}
        \cup [web : {TRUE}, uri : Urls, title : Titles]

\* The sequences of at most n grounding chunks.
ChunkSeqs(n) == UNION { [1..k -> Chunks] : k \in 0..n }

\* The responses of the search stage: one without candidates; one whose
\* first candidate has no grounding metadata; one whose metadata has no chunk
\* list; and those with a list of chunks.
NoResponse ==
    [candidates |-> FALSE, metadata |-> FALSE, grounding_chunks |-> FALSE, chunks |-> <<>>]

Responses ==
    {NoResponse,
     [candidates |-> TRUE, metadata |-> FALSE, grounding_chunks |-> FALSE, chunks |-> <<>>],
     [candidates |-> TRUE, metadata |-> TRUE, grounding_chunks |-> FALSE, chunks |-> <<>>]}
        \cup { [candidates |-> TRUE, metadata |-> TRUE, grounding_chunks |-> TRUE, chunks |-> cs] :
                   cs \in ChunkSeqs(MaxChunks) }

\* response.parsed of the structuring stage: the record the provider's JSON
\* was parsed into (named by its title), or None when the JSON did not fit
\* the schema.
Parsed == {"Dune", None}

\* What a call gives back: a value, or an exception.
Returns(value) == [raised |-> FALSE, value |-> value]
Raises == [raised |-> TRUE, value |-> <<>>]

\* ResearchSource(name=..., url=...): both fields are str, a None fails the
\* validation.
ResearchSourceValid(source) == source.name # None /\ source.url # None

\* Mutant: a new url is put in front of the ones seen before.
RECURSIVE UniqueSourcesNewestFirst(_, _)
UniqueSourcesNewestFirst(chunks, sources) ==
    IF chunks = <<>>
    THEN sources
    ELSE LET chunk == Head(chunks)
         IN UniqueSourcesNewestFirst(Tail(chunks),
                IF chunk.web /\ ~\E k \in DOMAIN sources : sources[k].url = chunk.uri
                THEN <<[name |-> chunk.title, url |-> chunk.uri]>> \o sources
                ELSE sources)

\* Mutant: a url seen again takes the title of its last occurrence.
RECURSIVE UniqueSourcesLastTitle(_, _)
UniqueSourcesLastTitle(chunks, sources) ==
    IF chunks = <<>>
    THEN sources
    ELSE LET chunk == Head(chunks)
         IN UniqueSourcesLastTitle(Tail(chunks),
                IF ~chunk.web
                THEN sources
                ELSE IF \E k \in DOMAIN sources : sources[k].url = chunk.uri
                     THEN [k \in DOMAIN sources |->
                             IF sources[k].url = chunk.uri
                             THEN [name |-> chunk.title, url |-> chunk.uri]
                             ELSE sources[k]]
                     ELSE Append(sources, [name |-> chunk.title, url |-> chunk.uri]))

\* The loop of _get_unique_sources over the chunks still to visit: `sources`
\* is the dict built so far, in insertion order, as (title, url) pairs.
RECURSIVE UniqueSources(_, _)
UniqueSources(chunks, sources) ==
    IF chunks = <<>>
    THEN sources
    ELSE LET chunk == Head(chunks)
         IN UniqueSources(Tail(chunks),
                IF chunk.web /\ ~\E k \in DOMAIN sources : sources[k].url = chunk.uri
                THEN Append(sources, [name |-> chunk.title, url |-> chunk.uri])
                ELSE sources)

\* Mutant: a response that cites no source is refused.
get_unique_sources_needs_one(response) ==
    LET sources == IF response.candidates /\ response.metadata /\ response.grounding_chunks
                   THEN UniqueSources(response.chunks, <<>>)
                   ELSE <<>>
    IN IF sources # <<>> /\ \A k \in DOMAIN sources : ResearchSourceValid(sources[k])
       THEN Returns(sources)
       ELSE Raises

\* BookResearchService._get_unique_sources: response.candidates[0] raises
\* when there is no candidate; no metadata gives []; otherwise the dict of the
\* web chunks, turned into a list of ResearchSource.
get_unique_sources(response) ==
    IF ~response.candidates
    THEN Raises
    ELSE IF ~response.metadata
    THEN Returns(<<>>)
    ELSE LET sources == IF response.grounding_chunks /\ response.chunks # <<>>
                        THEN UniqueSources(response.chunks, <<>>)
                        ELSE <<>>
         IN IF \A k \in DOMAIN sources : ResearchSourceValid(sources[k])
            THEN Returns(sources)
            ELSE Raises

\* Mutant: a response that did not fit the schema yields an empty record.
BookResearchOutputUnvalidated(info, sources) ==
    Returns(<<[info |-> [title |-> IF info = None THEN "" ELSE info], sources |-> sources]>>)

\* BookResearchOutput(info=..., sources=...): info is a BookResearchInfo, a
\* None fails the validation.
BookResearchOutput(info, sources) ==
    IF info = None
    THEN Raises
    ELSE Returns(<<[info |-> [title |-> info], sources |-> sources]>>)

\* No research_book call has started.  Of the call: the await it is at (or
\* how it ended), the response of the search stage, the sources made of it,
\* response.parsed of the structuring stage, the BookResearchOutput returned
\* (none: <<>>), and the step that raised.
NoResearch ==
    [pc |-> "idle", response |-> NoResponse, sources |-> <<>>, parsed |-> None,
     output |-> <<>>, raised_in |-> "none"]

(* ------------------------- vector_similarity -------------------------- *)

\* Where the vector search is modelled a vector is its number of values and
\* its direction, a number of quarter turns in one plane: [1, 0, ...] is 0,
\* [0, 1, ...] is 1, [-1, 0, ...] is 2, [0, -1, ...] is 3.
Directions == 0..3

Vector(n, d) == [dims |-> n, dir |-> d]

\* The vector the embedding provider returns for the k-th book inserted:
\* direction 0 for the first book and the other directions in turn for the
\* later ones; for the second book a vector of the wrong length.
Embedding(k) ==
    Vector(IF k = 2 THEN WrongDimensions ELSE NumDimensions,
           IF k = 1 THEN 0 ELSE 1 + (k % 3))

\* The cosine of the angle between two directions.
Cosine(a, b) ==
    CASE (a - b) % 4 = 0 -> 1
      [] (a - b) % 4 = 2 -> -1
      [] OTHER           -> 0

\* {"$meta": "vectorSearchScore"} of an index with "similarity": "cosine":
\* (1 + cosine) / 2, counted in halves here.
VectorSearchScore(query_vector, embedding) ==
    1 + Cosine(query_vector.dir, embedding.dir)

\* The entries 'vector_index' holds: those whose embedding has the
\* numDimensions of the index.
Indexed(store) ==
    { e \in DOMAIN store : store[e].embedding.dims = NumDimensions }

\* Mutant: the over-fetch is not truncated, the stage asks for as many
\* results as candidates.
VectorSearchStageNotTruncated(limit) ==
    [numCandidates |-> limit * 10, limit |-> limit * 10]

\* The $vectorSearch stage vector_similarity sends to the store:
\* "numCandidates": limit * 10, "limit": limit.
VectorSearchStage(limit) ==
    [numCandidates |-> limit * 10, limit |-> limit]

\* The store's side of $vectorSearch, an approximate nearest-neighbour
\* search.  Which entries it examines is the store's: any of the indexed
\* entries, at most numCandidates of them.  (A stage the store refuses, such
\* as a numCandidates beyond what it allows, makes the aggregation raise.)
CandidateSets(store, numCandidates) ==
    { S \in SUBSET Indexed(store) : Cardinality(S) <= numCandidates }

\* The store's side of $vectorSearch: the results it gives for the
\* candidates examined are "limit" of them (all of them when there are
\* fewer), best score first; which of two equal scores comes first is up to
\* the store.
VectorSearch(store, query_vector, limit, candidates) ==
    LET Score(e) == VectorSearchScore(query_vector, store[e].embedding)
        n == IF Cardinality(candidates) <= limit THEN Cardinality(candidates) ELSE limit
    IN { hits \in [1..n -> candidates] :
           /\ \A i, j \in 1..n : i < j =>
                  (hits[i] # hits[j] /\ Score(hits[i]) >= Score(hits[j]))
           /\ \A e \in candidates : (\A i \in 1..n : hits[i] # e) =>
                  \A i \in 1..n : Score(hits[i]) >= Score(e) }

\* What the store makes of the $project stage {"similarity": {"$meta":
\* "vectorSearchScore"}}, which names a $meta field and nothing else: an
\* inclusion projection, which passes on _id and the field named, or the
\* document with the field added.  Which of the two is the store's.
Projections == {"inclusion", "document"}

\* The $project stage: the document of entry e it passes on.
Project(store, query_vector, e, projection) ==
    IF projection = "inclusion"
    THEN [id         |-> e,
          similarity |-> VectorSearchScore(query_vector, store[e].embedding)]
    ELSE [id                  |-> e,
          provided_title      |-> store[e].provided_title,
          provided_other_info |-> store[e].provided_other_info,
          research_output     |-> store[e].research_output,
          embedding           |-> store[e].embedding,
          similarity          |-> VectorSearchScore(query_vector, store[e].embedding)]

\* The fields BookResearchWithSimilarity requires (none has a default).
BookResearchWithSimilarity ==
    {"provided_title", "provided_other_info", "research_output", "embedding",
     "similarity"}

\* vector_similarity with no projection_model: the documents are returned
\* as the pipeline gave them.
vector_similarity_unparsed(store, query_vector, hits, projection) ==
    Returns([i \in DOMAIN hits |-> Project(store, query_vector, hits[i], projection)])

\* BookResearch.vector_similarity: the documents the pipeline returns for
\* `hits`, each parsed into the projection model, which raises when a
\* document lacks a required field.
vector_similarity(store, query_vector, hits, projection) ==
    LET docs == [i \in DOMAIN hits |-> Project(store, query_vector, hits[i], projection)]
    IN IF \A i \in DOMAIN docs : BookResearchWithSimilarity \subseteq DOMAIN docs[i]
       THEN Returns(docs)
       ELSE Raises

\* limit=5 of the vector_similarity call of the MCP tool search_books.
SearchBooksLimit == 5

\* No vector search has been asked for.  Of the search: the function that
\* makes it, the call it awaits or how it ended, its init_beanie_models call
\* while it is inside it, what raised, its query
\* direction and limit, the candidates the store examined, the scores of
\* the indexed entries, the hits of the $vectorSearch stage, what the store
\* made of the $project stage and the list vector_similarity returned.
NoSearch ==
    [op |-> "none", pc |-> "idle", init |-> [pc |-> "none", existing |-> {}],
     raises |-> "none", query |-> 0, limit |-> 0,
     candidates |-> {}, scores |-> <<>>, hits |-> <<>>, projection |-> "none",
     result |-> <<>>]

(* ----------------------- init_beanie_models --------------------------- *)

\* Mutant: the listing is not looked at and the index is always created.
VectorIndexNeverListed(existing) ==
    FALSE

\* any(i['name'] == 'vector_index' for i in existing)
VectorIndexListed(existing) ==
    "vector_index" \in existing

\* An init_beanie_models call of a handler or of a job, as it starts: the
\* client singleton is fetched and init_beanie(...) awaited.  Of the call:
\* the await it is at and the listing it got (`existing`).
NewInit == [pc |-> "init_beanie", existing |-> {}]

\* The handler or the job is not inside init_beanie_models.
NoInit == [pc |-> "none", existing |-> {}]

\* BookResearch.add_search_index, await by await: the call once the call it
\* awaits has returned, the collection having the search indexes `indexes`
\* at that moment.  create_collection returns or raises CollectionInvalid,
\* which is passed over; list_search_indexes() gives the listing; after
\* to_list the call returns when 'vector_index' is listed and awaits
\* create_search_index otherwise, which the store rejects when the
\* collection has an index of that name by now.
add_search_index(call, indexes) ==
    CASE call.pc = "create_collection" -> [call EXCEPT !.pc = "list"]
      [] call.pc = "list"              -> [pc |-> "to_list", existing |-> indexes]
      [] call.pc = "to_list"           ->
            [call EXCEPT !.pc = IF VectorIndexListed(call.existing) THEN "done" ELSE "create"]
      [] call.pc = "create"            ->
            [call EXCEPT !.pc = IF "vector_index" \in indexes THEN "raised" ELSE "done"]

\* The search indexes of the collection once the call awaited by `call` has
\* ended: create_search_index adds 'vector_index'.
create_search_index(call, indexes, outcome) ==
    IF outcome = "ok" /\ call.pc = "create"
    THEN indexes \cup {"vector_index"}
    ELSE indexes

\* No init_beanie_models call has started.  Of each call: the await it is at,
\* the listing it got (`existing`), the number of create_search_index
\* commands it has issued, and whether another call had returned before it
\* started.
NoInits ==
    [c \in 1..MaxInits |->
        [pc |-> "idle", existing |-> {}, creates |-> 0, after |-> FALSE]]

\* init_beanie_models, await by await: the call once the call it awaits has
\* ended with `outcome`.  An exception of any awaited call but the
\* CollectionInvalid of create_collection leaves init_beanie_models; when
\* init_beanie(...) has returned, add_search_index is called.
init_beanie_models(call, indexes, outcome) ==
    IF outcome # "ok" THEN [call EXCEPT !.pc = "raised"]
    ELSE IF call.pc = "init_beanie" THEN [call EXCEPT !.pc = "create_collection"]
    ELSE add_search_index(call, indexes)

\* How an init_beanie_models call that is over ended, as the code that
\* awaited it sees it.
InitOutcome(call) == IF call.pc = "done" THEN "ok" ELSE "raise"

\* The call is over: it has returned or an exception has left it.
InitOver(call) == call.pc \in {"done", "raised"}

(* ------------------ control flow of one background job ---------------- *)

\* Mutant: an exception of the embedding call is swallowed and the job goes
\* on to the store.
TryNextSwallowsEmbed(stage, outcome) ==
    IF outcome = "ok" \/ stage = "embed"
    THEN CASE stage = "research"     -> "embed"
           [] stage = "embed"        -> "init"
           [] stage = "init"         -> "insert"
           [] stage = "insert"       -> "save_success"
           [] stage = "save_success" -> "done"
    ELSE "save_failure"

\* Mutant: the task is marked SUCCESS before the entry is inserted.
TryNextSavesFirst(stage, outcome) ==
    IF outcome = "ok"
    THEN CASE stage = "research"     -> "embed"
           [] stage = "embed"        -> "init"
           [] stage = "init"         -> "save_success"
           [] stage = "save_success" -> "insert"
           [] stage = "insert"       -> "done"
    ELSE "save_failure"

\* The try block: the call awaited after `stage` returned, and the except
\* clause (whose first await is the FAILURE write) when it raised.
TryNext(stage, outcome) ==
    IF outcome = "ok"
    THEN CASE stage = "research"     -> "embed"
           [] stage = "embed"        -> "init"
           [] stage = "init"         -> "insert"
           [] stage = "insert"       -> "save_success"
           [] stage = "save_success" -> "done"
    ELSE "save_failure"

\* Mutant: the except clause raises again once it has written FAILURE.
ExceptNextReraises(outcome) ==
    "crashed"

\* Mutant: after the FAILURE write the job runs the research call again.
ExceptNextRetries(outcome) ==
    IF outcome = "ok" THEN "research" ELSE "crashed"

\* The except clause: the job returns after the FAILURE write; an exception
\* of that write leaves the except clause and the job.
ExceptNext(outcome) ==
    IF outcome = "ok" THEN "done" ELSE "crashed"

\* pcs at which a job is awaiting a call.
Running == {"research", "embed", "init", "insert", "save_success", "save_failure"}

\* Mutant: the write goes to the record of the first task.
SaveToFirst(store, t, doc, outcome) ==
    IF outcome \in {"ok", "applied_raise"} THEN Put(store, 1, doc) ELSE store

\* task.save(): beanie's Document.save() updates the document of the task's
\* id and inserts it when the collection holds no document of that id.
Save(store, t, doc, outcome) ==
    IF outcome \in {"ok", "applied_raise"} THEN Put(store, t, doc) ELSE store

\* Mutant: the document is built and never inserted.
insert_research_task_unsaved(store, id, req) ==
    store

\* ResearchTask.insert_research_task: the store assigns the id.
insert_research_task(store, id, req) ==
    Put(store, id, ResearchTask(req, WORKING))

\* Mutant: the document is stored under the id of the first entry, replacing
\* the entry that is there.
insert_book_replaces(store, id, provided_title, provided_other_info, research_output, embedding) ==
    Put(store, 1,
        BookResearch(provided_title, provided_other_info, research_output, embedding))

\* BookResearch.insert_book: builds the document from its four arguments and
\* inserts it; the store assigns the id.
insert_book(store, id, provided_title, provided_other_info, research_output, embedding) ==
    Put(store, id,
        BookResearch(provided_title, provided_other_info, research_output, embedding))

\* background_tasks.add_task(background_task_research, brq, task): the job of
\* a task, not yet started.  `status` is task.status of the in-memory document
\* the job and the handler's `tasks` list share.  Three fields record what
\* the job has done: `entry` the id of the entry the store holds by its
\* insert, `fault` the call of the try block that raised, `failure_write` how
\* the FAILURE write of the except clause ended.  `init` is its
\* init_beanie_models call while it is inside it.
NewJob(b, req) ==
    [batch           |-> b,
     req             |-> req,
     status          |-> WORKING,
     pc              |-> "queued",
     init            |-> NoInit,
     research_output |-> NoResearchOutput,
     embedding       |-> 0,
     entry           |-> 0,
     fault           |-> "none",
     failure_write   |-> "none"]

\* The handler's `tasks` list as the response serialises it: the in-memory
\* documents, in the order they were appended.
TasksResponse(ids, js) ==
    [k \in 1..Len(ids) |->
        [id         |-> ids[k],
         title      |-> js[ids[k]].req.title,
         other_info |-> js[ids[k]].req.other_info,
         status     |-> js[ids[k]].status]]

\* The framework's BackgroundTasks runs the tasks added by one request one
\* after the other, after the response (`for task in self.tasks: await
\* task()`): the batch record once the current job has ended with `jobpc`.
\* An exception that leaves a job leaves the loop, and the tasks after it are
\* not run.  A handler that raises has no background tasks run at all.
BackgroundTasksNext(B, jobpc) ==
    IF jobpc = "crashed"
    THEN [B EXCEPT !.pc = "aborted"]
    ELSE IF B.cur < Len(B.tasks)
         THEN [B EXCEPT !.cur = @ + 1]
         ELSE [B EXCEPT !.pc = "finished"]

\* The jobs once BackgroundTasks has moved on: the job it now awaits has
\* started and awaits its research_book call.
StartCurrent(B, js) ==
    IF B.pc = "background" /\ js[B.tasks[B.cur]].pc = "queued"
    THEN [js EXCEPT ![B.tasks[B.cur]].pc = "research"]
    ELSE js

\* The job record once the call has ended: its locals are gone.
Ended(job) ==
    [job EXCEPT !.research_output = NoResearchOutput, !.embedding = 0]

\* Job t has moved to `job`: the batch and the jobs afterwards.
JobMoves(t, job) ==
    LET b == jobs[t].batch
        over == job.pc \in {"done", "crashed"}
        B == IF over THEN BackgroundTasksNext(batches[b], job.pc) ELSE batches[b]
    IN /\ batches' = [batches EXCEPT ![b] = B]
       /\ jobs' = StartCurrent(B, [jobs EXCEPT ![t] = IF over THEN Ended(job) ELSE job])

\* The awaited call ends with `outcome`: a call that does not simply return
\* counts against MaxFaults.
Fault(misbehaves) ==
    IF misbehaves
    THEN faults < MaxFaults /\ faults' = faults + 1
    ELSE UNCHANGED faults

(* -------------------- what a client is answered ---------------------- *)

\* No request of the client has been answered yet.
NoReply ==
    [op |-> "none", id |-> 0, raises |-> "none", status |-> 0, detail |-> "", body |-> <<>>]

\* The handler returns `value`: the framework answers 200 with it.
Ok(op, id, value) ==
    [op |-> op, id |-> id, raises |-> "none", status |-> 200, detail |-> "", body |-> <<value>>]

\* raise HTTPException(status_code=..., detail=...): the framework answers
\* with that status and detail.
HTTPException(op, id, status_code, detail) ==
    [op |-> op, id |-> id, raises |-> "none", status |-> status_code, detail |-> detail, body |-> <<>>]

\* The call `raises` raised and nothing in the handler catches it: the
\* exception leaves the handler and the framework answers 500.
Unhandled(op, id, raises) ==
    [op |-> op, id |-> id, raises |-> raises, status |-> 500, detail |-> "Internal Server Error",
     body |-> <<>>]

\* research, with the exception of research_book caught and an empty answer
\* returned.
research_quick_swallows(k, outcome) ==
    IF outcome = "ok"
    THEN Ok("research", k, ResearchBook(Book(k)))
    ELSE [Ok("research", k, None) EXCEPT !.raises = "research_book"]

\* research (GET /quick) for the k-th book: the output of research_book is
\* returned as it is, and so is its exception.
research_quick(k, outcome) ==
    IF outcome = "ok"
    THEN Ok("research", k, ResearchBook(Book(k)))
    ELSE Unhandled("research", k, "research_book")

\* research_task_get: the answer when the call `raises` raised, and
\* otherwise the answer to the lookup of task_id that ResearchTask.get made
\* in `store`.
research_task_get(store, task_id, raises) ==
    IF raises # "none" THEN Unhandled("research_task_get", task_id, raises)
    ELSE IF task_id \notin DOMAIN store
    THEN HTTPException("research_task_get", task_id, 404, "Research task not found")
    ELSE Ok("research_task_get", task_id, store[task_id])

\* research_tasks_list, in its three variants: the ids of the records of
\* `store` whose status is one of `statuses`, as find(...).to_list() gives
\* them.
research_tasks_list(store, statuses) ==
    { t \in DOMAIN store : store[t].status \in statuses }

\* The three routes served by a function named research_tasks_list, and the
\* statuses each asks the store for.
TaskListRoutes == {"tasks/list", "tasks/list_working", "tasks/list_failed"}
Statuses(route) ==
    CASE route = "tasks/list_working" -> {WORKING}
      [] route = "tasks/list_failed"  -> {FAILURE}
      [] OTHER                        -> {WORKING, SUCCESS, FAILURE}

\* ResearchTasks(tasks = tasks): the answer of a research_tasks_list route,
\* the records found under their ids.
ResearchTasks(route, store, raises) ==
    IF raises # "none" THEN Unhandled(route, 0, raises)
    ELSE Ok(route, 0, [tasks |-> [t \in research_tasks_list(store, Statuses(route)) |-> store[t]]])

\* research_tasks_clear: True once delete_all() has returned.
research_tasks_clear(raises) ==
    IF raises # "none" THEN Unhandled("research_tasks_clear", 0, raises)
    ELSE Ok("research_tasks_clear", 0, TRUE)

\* research_task_delete: the answer when the call `raises` raised, and
\* otherwise 404 when ResearchTask.get had found no document and True when
\* task.delete() of the document found has returned.
research_task_delete(found, task_id, raises) ==
    IF raises # "none" THEN Unhandled("research_task_delete", task_id, raises)
    ELSE IF ~found
    THEN HTTPException("research_task_delete", task_id, 404, "Research task not found")
    ELSE Ok("research_task_delete", task_id, TRUE)

\* books_list (GET /list): BookListResponse, a BookInfoResponse (id and
\* research_output.info) for each entry found.
books_list(store, raises) ==
    IF raises # "none" THEN Unhandled("books_list", 0, raises)
    ELSE Ok("books_list", 0,
            [books |-> [e \in DOMAIN store |-> [id |-> e, info |-> store[e].research_output.info]]])

\* books_recommend: what recommend_books returns is returned as it is; the
\* recommendation is the provider's and is not looked into.
books_recommend(raises) ==
    IF raises # "none" THEN Unhandled("books_recommend", 0, raises)
    ELSE Ok("books_recommend", 0, "BookRecommendOutput")

\* books_clear: True once delete_all() has returned.
books_clear(raises) ==
    IF raises # "none" THEN Unhandled("books_clear", 0, raises)
    ELSE Ok("books_clear", 0, TRUE)

\* str(e) of an HTTPException: "<status_code>: <detail>"; of the exception of
\* an awaited call, its message.
StrOfHTTPException(status_code, detail) == ToString(status_code) \o ": " \o detail
StrOfRaised(raises) == raises \o " failed"

\* books_delete: init_beanie_models() is awaited outside the try block; the
\* lookup, the 404 of a missing book and the delete are inside it, and
\* `except Exception` answers whatever is raised there, the 404 included,
\* with a 400 that quotes it.
books_delete(found, book_id, raises) ==
    LET op == "books_delete"
        except(e) == [HTTPException(op, book_id, 400, "Error deleting book: " \o e)
                         EXCEPT !.raises = raises]
    IN IF raises = "init_beanie_models" THEN Unhandled(op, book_id, raises)
       ELSE IF raises # "none" THEN except(StrOfRaised(raises))
       ELSE IF ~found THEN except(StrOfHTTPException(404, "Book not found"))
       ELSE Ok(op, book_id, [message |-> "Book deleted successfully", deleted_id |-> book_id])

\* The parameters of BookResearch.insert_book, none of which has a default,
\* and the keyword arguments research_and_insert passes to it.
InsertBookParameters ==
    {"provided_title", "provided_other_info", "research_output", "embedding"}
ResearchAndInsertArguments ==
    {"provided_title", "provided_other_info", "research_output"}

\* A call binds when every parameter is given and no other keyword is;
\* otherwise the call raises TypeError before the function body runs.
Binds(parameters, arguments) == arguments = parameters

\* The id the store assigns to the entry research_and_insert inserts.
NewBookId(store) == MaxTasks + 1 + Cardinality(DOMAIN store)

\* What of research_and_insert raises: the awaited call that raised, or the
\* call of insert_book itself when its arguments do not bind.
ResearchAndInsertRaises(raises) ==
    IF raises \in {"research_book", "init_beanie_models"} THEN raises
    ELSE IF ~Binds(InsertBookParameters, ResearchAndInsertArguments) THEN "TypeError"
    ELSE raises

\* research_and_insert for the k-th book: the ResearchStore afterwards.
ResearchAndInsertStore(store, k, raises) ==
    IF ResearchAndInsertRaises(raises) = "none"
    THEN insert_book(store, NewBookId(store), Book(k).title, Book(k).other_info,
                     ResearchBook(Book(k)), NumDimensions)
    ELSE store

\* research_and_insert for the k-th book: the answer.  Nothing in the
\* handler catches an exception.
research_and_insert(store, k, raises) ==
    LET op == "research_and_insert"
        raised == ResearchAndInsertRaises(raises)
    IN IF raised # "none" THEN Unhandled(op, k, raised)
       ELSE Ok(op, k, ResearchAndInsertStore(store, k, raises)[NewBookId(store)])

(* ------------------------- request handlers --------------------------- *)

\* The handlers of the two routers besides research_book_async and the
\* vector search.  The three research_tasks_list routes go by their paths.
Handlers ==
    {"research", "research_and_insert", "research_task_get", "research_tasks_clear",
     "research_task_delete", "books_recommend", "books_list", "books_delete", "books_clear"}
        \cup TaskListRoutes

\* The calls a handler awaits, in the order of its code.
Awaits(op) ==
    CASE op = "research"             -> <<"research_book">>
      [] op = "research_and_insert"  -> <<"research_book", "init_beanie_models", "insert_book">>
      [] op = "research_task_get"    -> <<"init_beanie_models", "get">>
      [] op \in TaskListRoutes       -> <<"init_beanie_models", "find">>
      [] op = "research_tasks_clear" -> <<"init_beanie_models", "delete_all">>
      [] op = "research_task_delete" -> <<"init_beanie_models", "get", "delete">>
      [] op = "books_recommend"      -> <<"init_beanie_models", "find", "recommend_books">>
      [] op = "books_list"           -> <<"init_beanie_models", "find">>
      [] op = "books_delete"         -> <<"init_beanie_models", "get", "delete">>
      [] op = "books_clear"          -> <<"init_beanie_models", "delete_all">>

\* The call the handler awaits once `call` has returned, "return" when it
\* awaits none.
After(op, call) ==
    LET i == CHOOSE j \in DOMAIN Awaits(op) : Awaits(op)[j] = call
    IN IF i < Len(Awaits(op)) THEN Awaits(op)[i + 1] ELSE "return"

\* task_id: str and book_id: str, the path parameters of the get and delete
\* handlers, take any string.  A string that is no ObjectId ("abc") is the id
\* of no document: Document.get(...) parses its argument into the id type of
\* the document before it asks the store, and raises a validation error.
IllFormedId == 0

\* The ids a client may ask for: the ill-formed one, and well-formed ones,
\* which the store has given to a document, will give to one, or never gives.
Ids == {IllFormedId} \cup 1..MaxTasks

\* What a request is about: the task or entry id of its path, the number of
\* the book of its query, nothing otherwise.
Arguments(op) ==
    CASE op \in {"research_task_get", "research_task_delete", "books_delete"} -> Ids
      [] op \in {"research", "research_and_insert"} -> 1..MaxTasks
      [] OTHER -> {0}

\* What the call of `call` raises before it awaits anything, "none" when it
\* gets to its await: insert_book(...) of research_and_insert does not bind
\* (TypeError), and get(...) of an ill-formed id fails to parse it.
RaisesAtCall(q, call) ==
    IF call = "insert_book" /\ ~Binds(InsertBookParameters, ResearchAndInsertArguments)
    THEN "TypeError"
    ELSE IF call = "get" /\ q.id = IllFormedId
    THEN "ValidationError"
    ELSE "none"

\* The handlers that work on the collection book_research.
OnResearchStore == {"research_and_insert", "books_recommend", "books_list", "books_delete", "books_clear"}

\* No request has arrived.
NoRequests == <<>>

\* The init_beanie_models call of a handler that goes on to await `call`.
InitOf(call) == IF call = "init_beanie_models" THEN NewInit ELSE NoInit

\* A request as it arrives: its handler is called and runs to its first
\* await.  `followed` marks the request whose answer is kept in `reply`.
NewRequest(op, id, followed) ==
    [op |-> op, id |-> id, pc |-> Awaits(op)[1], init |-> InitOf(Awaits(op)[1]),
     followed |-> followed, removed |-> FALSE]

\* A request that has been answered: its handler's locals are gone; what is
\* kept is whether it removed a document.
Answered(q, removed) ==
    [op |-> "answered", id |-> 0, pc |-> "answered", init |-> NoInit,
     followed |-> q.followed, removed |-> removed]

\* Number of requests that have removed a document.
Removed == Cardinality({ r \in DOMAIN requests : requests[r].removed })

\* The answer to request q when its handler is left: by the exception of
\* the call `raises`, or, with raises = "none", by its own return or raise.
\* `found` says whether the lookup of a delete found a document, and the
\* stores are those of the step in which the handler is left.
Answer(q, raises, found) ==
    CASE q.op = "research" ->
            research_quick(q.id, IF raises = "none" THEN "ok" ELSE "raise")
      [] q.op = "research_and_insert"  -> research_and_insert(researchStore, q.id, raises)
      [] q.op = "research_task_get"    -> research_task_get(taskStore, q.id, raises)
      [] q.op \in TaskListRoutes       -> ResearchTasks(q.op, taskStore, raises)
      [] q.op = "research_tasks_clear" -> research_tasks_clear(raises)
      [] q.op = "research_task_delete" -> research_task_delete(found, q.id, raises)
      [] q.op = "books_recommend"      -> books_recommend(raises)
      [] q.op = "books_list"           -> books_list(researchStore, raises)
      [] q.op = "books_delete"         -> books_delete(found, q.id, raises)
      [] q.op = "books_clear"          -> books_clear(raises)

\* The handler of request r is left with `answer`.
Answers(r, answer, removed) ==
    /\ requests' = [requests EXCEPT ![r] = Answered(@, removed)]
    /\ reply' = IF requests[r].followed THEN answer ELSE reply

\* The handler of request r goes on to await `call`.
Resumes(r, call) ==
    /\ requests' = [requests EXCEPT ![r].pc = call, ![r].init = InitOf(call)]
    /\ UNCHANGED reply

(* ------------------------------- Init --------------------------------- *)

Init ==
    /\ taskStore = Empty
    /\ researchStore = Empty
    /\ searchIndexes = {}
    /\ batches = <<>>
    /\ jobs = Empty
    /\ faults = 0
    /\ requests = NoRequests
    /\ inits = NoInits
    /\ research = NoResearch
    /\ search = NoSearch
    /\ reply = NoReply

(* ----------------------- research_book_async -------------------------- *)

\* A client posts a batch of n books, none included, to
\* /research_and_insert_async; the handler starts and awaits
\* init_beanie_models().
Submit(n) ==
    /\ Len(batches) < MaxBatches
    /\ Submitted + n <= MaxTasks
    /\ batches' = Append(batches,
                         [first |-> Submitted, books |-> Books(Submitted, n), pc |-> "init",
                          init |-> NewInit, tasks |-> <<>>, response |-> <<>>, cur |-> 0])
    /\ UNCHANGED <<taskStore, researchStore, searchIndexes, jobs, faults, requests>>
    /\ UNCHANGED others

\* The call that init_beanie_models() of the handler awaits returns or
\* raises.  An exception that leaves init_beanie_models leaves the handler;
\* when it has returned the loop starts, and with no item in the batch the
\* loop is passed over and the handler returns its empty `tasks`.
HandlerInit(b, outcome) ==
    /\ batches[b].pc = "init"
    /\ LET B == batches[b]
           call == init_beanie_models(B.init, searchIndexes, outcome)
       IN /\ searchIndexes' = create_search_index(B.init, searchIndexes, outcome)
          /\ batches' = [batches EXCEPT ![b] =
                IF ~InitOver(call) THEN [B EXCEPT !.init = call]
                ELSE [B EXCEPT !.init = NoInit,
                               !.pc = IF InitOutcome(call) # "ok" THEN "error"
                                      ELSE IF Len(B.books) = 0 THEN "responding"
                                      ELSE "insert"]]
    /\ Fault(outcome # "ok")
    /\ UNCHANGED <<taskStore, researchStore, jobs, requests>>
    /\ UNCHANGED others

\* insert_research_task of the next item returns or raises.  On return the
\* TaskRecord is persisted, appended to `tasks` and its job added to the
\* background tasks; after the last item the handler returns `tasks`.
HandlerInsert(b, outcome) ==
    /\ batches[b].pc = "insert"
    /\ LET B   == batches[b]
           i   == Len(B.tasks) + 1
           t   == TaskId(B, i)
           ids == Append(B.tasks, t)
           js  == Put(jobs, t, NewJob(b, B.books[i]))
       IN IF outcome = "ok"
          THEN /\ taskStore' = insert_research_task(taskStore, t, B.books[i])
               /\ jobs' = js
               /\ batches' = [batches EXCEPT ![b] =
                     IF i = Len(B.books)
                     THEN [B EXCEPT !.tasks = ids, !.pc = "responding",
                                    !.response = TasksResponse(ids, js)]
                     ELSE [B EXCEPT !.tasks = ids]]
          ELSE /\ batches' = [batches EXCEPT ![b].pc = "error"]
               /\ UNCHANGED <<taskStore, jobs>>
    /\ Fault(outcome # "ok")
    /\ UNCHANGED <<researchStore, searchIndexes, requests>>
    /\ UNCHANGED others

\* The response has been sent; the framework now runs the background tasks
\* of the request, of which a request with no item has none.
Respond(b) ==
    /\ batches[b].pc = "responding"
    /\ LET B == IF batches[b].tasks = <<>>
                THEN [batches[b] EXCEPT !.pc = "finished"]
                ELSE [batches[b] EXCEPT !.pc = "background", !.cur = 1]
       IN /\ batches' = [batches EXCEPT ![b] = B]
          /\ jobs' = StartCurrent(B, jobs)
    /\ UNCHANGED <<taskStore, researchStore, searchIndexes,
                   faults, requests>>
    /\ UNCHANGED others

(* --------------------- background_task_research ----------------------- *)

\* The job record after the awaited call `stage` of the try block has ended
\* with `outcome`: the next await, task.status as assigned on the way to it
\* (SUCCESS before the first save, FAILURE in the except clause), the
\* init_beanie_models call when that is what it awaits next, and the call
\* that raised.
AfterTry(job, stage, outcome) ==
    LET nxt == TryNext(stage, outcome)
    IN [job EXCEPT !.pc     = nxt,
                   !.init   = IF nxt = "init" THEN NewInit ELSE NoInit,
                   !.fault  = IF outcome = "ok" THEN @ ELSE stage,
                   !.status = CASE nxt = "save_success" -> SUCCESS
                                [] nxt = "save_failure" -> FAILURE
                                [] OTHER                -> @]

\* ai_services.research.research_book(...) returns or raises.
JobResearch(t, outcome) ==
    /\ jobs[t].pc = "research"
    /\ LET job == AfterTry(jobs[t], "research", outcome)
       IN JobMoves(t, IF outcome = "ok"
                      THEN [job EXCEPT !.research_output = ResearchBook(job.req)]
                      ELSE job)
    /\ Fault(outcome # "ok")
    /\ UNCHANGED <<taskStore, researchStore, searchIndexes,
                   requests>>
    /\ UNCHANGED others

\* ai_services.embedding.generate_embedding(...) returns a vector of n values
\* or raises.
JobEmbed(t, outcome, n) ==
    /\ jobs[t].pc = "embed"
    /\ LET job == AfterTry(jobs[t], "embed", outcome)
       IN JobMoves(t, IF outcome = "ok" THEN [job EXCEPT !.embedding = n] ELSE job)
    /\ Fault(outcome # "ok" \/ n # NumDimensions)
    /\ UNCHANGED <<taskStore, researchStore, searchIndexes,
                   requests>>
    /\ UNCHANGED others

\* The call that init_beanie_models() of the job awaits returns or raises.
JobInit(t, outcome) ==
    /\ jobs[t].pc = "init"
    /\ LET call == init_beanie_models(jobs[t].init, searchIndexes, outcome)
       IN /\ searchIndexes' = create_search_index(jobs[t].init, searchIndexes, outcome)
          /\ JobMoves(t, IF InitOver(call)
                         THEN AfterTry(jobs[t], "init", InitOutcome(call))
                         ELSE [jobs[t] EXCEPT !.init = call])
    /\ Fault(outcome # "ok")
    /\ UNCHANGED <<taskStore, researchStore, requests>>
    /\ UNCHANGED others

\* BookResearch.insert_book(...) returns, the entry stored, or raises, the
\* entry stored or not: research.insert() is the one await of insert_book,
\* and nothing in the job removes an entry the store took.
JobInsert(t, outcome) ==
    /\ jobs[t].pc = "insert"
    /\ LET job == AfterTry(jobs[t], "insert", outcome)
       IN IF outcome \in {"ok", "applied_raise"}
          THEN /\ researchStore' =
                     insert_book(researchStore, BookId(t), job.req.title,
                                 job.req.other_info, job.research_output,
                                 job.embedding)
               /\ JobMoves(t, [job EXCEPT !.entry = BookId(t)])
          ELSE /\ JobMoves(t, job)
               /\ UNCHANGED researchStore
    /\ Fault(outcome # "ok")
    /\ UNCHANGED <<taskStore, searchIndexes, requests>>
    /\ UNCHANGED others

\* task.save() with task.status = SUCCESS returns or raises.
JobSaveSuccess(t, outcome) ==
    /\ jobs[t].pc = "save_success"
    /\ taskStore' = Save(taskStore, t, ResearchTask(jobs[t].req, jobs[t].status), outcome)
    /\ JobMoves(t, AfterTry(jobs[t], "save_success", outcome))
    /\ Fault(outcome # "ok")
    /\ UNCHANGED <<researchStore, searchIndexes, requests>>
    /\ UNCHANGED others

\* task.save() with task.status = FAILURE, in the except clause, returns or
\* raises.
JobSaveFailure(t, outcome) ==
    /\ jobs[t].pc = "save_failure"
    /\ taskStore' = Save(taskStore, t, ResearchTask(jobs[t].req, jobs[t].status), outcome)
    /\ JobMoves(t, [jobs[t] EXCEPT !.pc = ExceptNext(outcome),
                                   !.failure_write = outcome])
    /\ Fault(outcome # "ok")
    /\ UNCHANGED <<researchStore, searchIndexes, requests>>
    /\ UNCHANGED others

(* ------------------------- client operations -------------------------- *)

\* The other handlers, each await a step of its own: between two of them the
\* handlers of other requests and the jobs run.

\* A request for handler `op` arrives.  At most MaxRequests requests are not
\* followed, and one is.
Request(op, id, followed) ==
    /\ IF followed
       THEN /\ reply.op = "none"
            /\ \A r \in DOMAIN requests : ~requests[r].followed
       ELSE Cardinality({ r \in DOMAIN requests : ~requests[r].followed }) < MaxRequests
    /\ requests' = Append(requests, NewRequest(op, id, followed))
    /\ UNCHANGED <<taskStore, researchStore, searchIndexes, batches, jobs, faults>>
    /\ UNCHANGED others

\* The call that init_beanie_models() of a handler awaits returns or raises.
\* An exception that leaves init_beanie_models leaves the handler (in
\* books_delete too, where it is awaited outside the try block).  When it
\* has returned the handler calls what it awaits next, and a call that
\* raises before its own await ends the handler there and then.
AwaitInit(r, outcome) ==
    /\ requests[r].pc = "init_beanie_models"
    /\ LET q == requests[r]
           init == init_beanie_models(q.init, searchIndexes, outcome)
           call == After(q.op, "init_beanie_models")
       IN /\ searchIndexes' = create_search_index(q.init, searchIndexes, outcome)
          /\ IF ~InitOver(init)
             THEN /\ requests' = [requests EXCEPT ![r].init = init]
                  /\ UNCHANGED reply
             ELSE IF InitOutcome(init) # "ok"
             THEN Answers(r, Answer(q, "init_beanie_models", FALSE), FALSE)
             ELSE IF RaisesAtCall(q, call) # "none"
             THEN Answers(r, Answer(q, RaisesAtCall(q, call), FALSE), FALSE)
             ELSE Resumes(r, call)
    /\ Fault(outcome # "ok")
    /\ UNCHANGED <<taskStore, researchStore, batches, jobs, inits, research, search>>

\* ResearchTask.get(task_id) or BookResearch.get(book_id) returns the
\* document or None, or raises.  research_task_get returns the document;
\* the delete handlers go on to delete it; all raise their 404 on None.
AwaitGet(r, outcome) ==
    /\ requests[r].pc = "get"
    /\ LET q == requests[r]
           store == IF q.op \in OnResearchStore THEN researchStore ELSE taskStore
           found == q.id \in DOMAIN store
       IN IF outcome = "ok" /\ found /\ After(q.op, "get") # "return"
          THEN Resumes(r, After(q.op, "get"))
          ELSE Answers(r, Answer(q, IF outcome = "ok" THEN "none" ELSE "get", found), FALSE)
    /\ Fault(outcome # "ok")
    /\ UNCHANGED <<taskStore, researchStore, searchIndexes, batches, jobs, inits, research, search>>

\* find(...).to_list() or find_all().to_list() returns the documents or
\* raises.  books_recommend goes on to the provider with them; the list
\* handlers return them.
AwaitFind(r, outcome) ==
    /\ requests[r].pc = "find"
    /\ LET q == requests[r]
       IN IF outcome = "ok" /\ After(q.op, "find") # "return"
          THEN Resumes(r, After(q.op, "find"))
          ELSE Answers(r, Answer(q, IF outcome = "ok" THEN "none" ELSE "find", FALSE), FALSE)
    /\ Fault(outcome # "ok")
    /\ UNCHANGED <<taskStore, researchStore, searchIndexes, batches, jobs, inits, research, search>>

\* The write a handler awaits returns, the store changed, or raises, the
\* store as it was: document.delete() of the document found before, which
\* also returns when the document is no longer there; delete_all(); and
\* insert_book(...).  The handler then returns.
AwaitWrite(r, outcome) ==
    /\ requests[r].pc \in {"delete", "delete_all", "insert_book"}
    /\ LET q == requests[r]
           store == IF q.op \in OnResearchStore THEN researchStore ELSE taskStore
           written == CASE q.pc = "delete"      -> Remove(store, q.id)
                        [] q.pc = "delete_all"  -> Empty
                        [] q.pc = "insert_book" ->
                              ResearchAndInsertStore(store, q.id, "none")
           after == IF outcome = "ok" THEN written ELSE store
       IN /\ IF q.op \in OnResearchStore
             THEN researchStore' = after /\ UNCHANGED taskStore
             ELSE taskStore' = after /\ UNCHANGED researchStore
          /\ Answers(r, Answer(q, IF outcome = "ok" THEN "none" ELSE q.pc, TRUE),
                     DOMAIN after # DOMAIN store /\ q.pc # "insert_book")
    /\ Fault(outcome # "ok")
    /\ UNCHANGED <<searchIndexes, batches, jobs, inits, research, search>>

\* The provider call a handler awaits returns or raises: research_book of
\* research and of research_and_insert, recommend_books of books_recommend.
AwaitProvider(r, outcome) ==
    /\ requests[r].pc \in {"research_book", "recommend_books"}
    /\ LET q == requests[r]
       IN IF outcome = "ok" /\ After(q.op, q.pc) # "return"
          THEN Resumes(r, After(q.op, q.pc))
          ELSE Answers(r, Answer(q, IF outcome = "ok" THEN "none" ELSE q.pc, FALSE), FALSE)
    /\ Fault(outcome # "ok")
    /\ UNCHANGED <<taskStore, researchStore, searchIndexes, batches, jobs, inits, research, search>>

(* ------------------------------- Next --------------------------------- *)

Next ==
    \/ \E n \in 0..MaxTasks : Submit(n)
    \/ \E b \in DOMAIN batches, o \in CallOutcomes : HandlerInit(b, o)
    \/ \E b \in DOMAIN batches, o \in CallOutcomes : HandlerInsert(b, o)
    \/ \E b \in DOMAIN batches : Respond(b)
    \/ \E t \in DOMAIN jobs, o \in CallOutcomes : JobResearch(t, o)
    \/ \E t \in DOMAIN jobs, o \in CallOutcomes, n \in EmbeddingLengths : JobEmbed(t, o, n)
    \/ \E t \in DOMAIN jobs, o \in CallOutcomes : JobInit(t, o)
    \/ \E t \in DOMAIN jobs, o \in WriteOutcomes : JobInsert(t, o)
    \/ \E t \in DOMAIN jobs, o \in WriteOutcomes : JobSaveSuccess(t, o)
    \/ \E t \in DOMAIN jobs, o \in WriteOutcomes : JobSaveFailure(t, o)
    \/ \E op \in Handlers : \E id \in Arguments(op) : Request(op, id, FALSE)
    \/ \E r \in DOMAIN requests, o \in CallOutcomes : AwaitInit(r, o)
    \/ \E r \in DOMAIN requests, o \in CallOutcomes : AwaitGet(r, o)
    \/ \E r \in DOMAIN requests, o \in CallOutcomes : AwaitFind(r, o)
    \/ \E r \in DOMAIN requests, o \in CallOutcomes : AwaitWrite(r, o)
    \/ \E r \in DOMAIN requests, o \in CallOutcomes : AwaitProvider(r, o)

Spec == Init /\ [][Next]_vars

(* --------------- init_beanie_models, await by await ------------------- *)

\* Every endpoint and every background job calls init_beanie_models(); the
\* calls of different requests overlap at their awaits.  The steps of the
\* pipeline above take a call as a whole; here each await of a call is a
\* step of its own.  The store rejects a search index whose name is taken.

\* A request or a job calls init_beanie_models(): the client singleton is
\* fetched and init_beanie(...) awaited.
InitCall(c) ==
    /\ inits[c].pc = "idle"
    /\ \A d \in 1..(c - 1) : inits[d].pc # "idle"
    /\ inits' = [inits EXCEPT ![c].pc = "init_beanie",
                              ![c].after = \E d \in 1..MaxInits : inits[d].pc = "done"]
    /\ UNCHANGED <<searchIndexes, pipeline, research, search, reply>>

\* init_beanie(...) returns; add_search_index starts and awaits
\* db.create_collection(...).
InitBeanie(c) ==
    /\ inits[c].pc = "init_beanie"
    /\ inits' = [inits EXCEPT ![c].pc = "create_collection"]
    /\ UNCHANGED <<searchIndexes, pipeline, research, search, reply>>

\* create_collection returns, or raises CollectionInvalid, which is passed
\* over; collection.list_search_indexes() is awaited next.
CreateCollection(c) ==
    /\ inits[c].pc = "create_collection"
    /\ inits' = [inits EXCEPT ![c].pc = "list"]
    /\ UNCHANGED <<searchIndexes, pipeline, research, search, reply>>

\* list_search_indexes() returns the cursor over the indexes the collection
\* has now (never more than the one this code creates, so that the
\* to_list(length=10) that follows drops none).
ListSearchIndexes(c) ==
    /\ inits[c].pc = "list"
    /\ inits' = [inits EXCEPT ![c].pc = "to_list", ![c].existing = searchIndexes]
    /\ UNCHANGED <<searchIndexes, pipeline, research, search, reply>>

\* to_list(length=10) returns `existing`: the call returns when
\* 'vector_index' is listed and awaits create_search_index otherwise.
ToList(c) ==
    /\ inits[c].pc = "to_list"
    /\ inits' = [inits EXCEPT ![c].pc =
                    IF VectorIndexListed(inits[c].existing) THEN "done" ELSE "create"]
    /\ UNCHANGED <<searchIndexes, pipeline, research, search, reply>>

\* create_search_index({"name": "vector_index", ...}) creates the index, or
\* raises when the collection has an index of that name by now.
CreateSearchIndex(c) ==
    /\ inits[c].pc = "create"
    /\ IF "vector_index" \in searchIndexes
       THEN /\ inits' = [inits EXCEPT ![c].pc = "raised", ![c].creates = @ + 1]
            /\ UNCHANGED searchIndexes
       ELSE /\ inits' = [inits EXCEPT ![c].pc = "done", ![c].creates = @ + 1]
            /\ searchIndexes' = searchIndexes \cup {"vector_index"}
    /\ UNCHANGED <<pipeline, research, search, reply>>

IndexNext ==
    \/ \E c \in 1..MaxInits : InitCall(c)
    \/ \E c \in 1..MaxInits : InitBeanie(c)
    \/ \E c \in 1..MaxInits : CreateCollection(c)
    \/ \E c \in 1..MaxInits : ListSearchIndexes(c)
    \/ \E c \in 1..MaxInits : ToList(c)
    \/ \E c \in 1..MaxInits : CreateSearchIndex(c)

IndexSpec == Init /\ [][IndexNext]_vars

(* ------------------ research_book, await by await --------------------- *)

\* research_book(title, other_info) is called and awaits _search_book_info:
\* the provider's generate_content raises, or returns `response`, of which
\* _get_unique_sources makes the sources before the structuring stage is
\* awaited.
SearchBookInfo(outcome, response) ==
    /\ research.pc = "idle"
    /\ LET sources == get_unique_sources(response)
       IN research' =
            IF outcome # "ok"
            THEN [research EXCEPT !.pc = "raised", !.raised_in = "search"]
            ELSE IF sources.raised
            THEN [research EXCEPT !.pc = "raised", !.raised_in = "sources",
                                  !.response = response]
            ELSE [research EXCEPT !.pc = "structure", !.response = response,
                                  !.sources = sources.value]
    /\ UNCHANGED <<searchIndexes, pipeline, inits, search, reply>>

\* _structure_book_info: the provider's generate_content raises, or returns
\* a response whose .parsed is handed back; research_book then builds the
\* BookResearchOutput it returns.
StructureBookInfo(outcome, parsed) ==
    /\ research.pc = "structure"
    /\ LET output == BookResearchOutput(parsed, research.sources)
       IN research' =
            IF outcome # "ok"
            THEN [research EXCEPT !.pc = "raised", !.raised_in = "structure"]
            ELSE IF output.raised
            THEN [research EXCEPT !.pc = "raised", !.raised_in = "output",
                                  !.parsed = parsed]
            ELSE [research EXCEPT !.pc = "returned", !.parsed = parsed,
                                  !.output = output.value]
    /\ UNCHANGED <<searchIndexes, pipeline, inits, search, reply>>

ResearchNext ==
    \/ \E o \in CallOutcomes, r \in Responses : SearchBookInfo(o, r)
    \/ \E o \in CallOutcomes, p \in Parsed : StructureBookInfo(o, p)

ResearchSpec == Init /\ [][ResearchNext]_vars

(* --------------------------- books search ----------------------------- *)

\* The awaits of books_list (GET /search), at one of which a search that
\* has been asked for and not yet answered is.
SearchAwaits == {"init_beanie_models", "generate_embedding", "vector_similarity"}

\* A job inserts the entry of the next book with the embedding of that book
\* (insert_book in background_task_research), before a search is asked for
\* or while its handler awaits a call.
SearchInsert ==
    /\ search.pc \in {"idle"} \cup SearchAwaits
    /\ Cardinality(DOMAIN researchStore) < MaxEntries
    /\ LET id == Cardinality(DOMAIN researchStore) + 1
       IN researchStore' =
             insert_book(researchStore, id, Book(id).title, Book(id).other_info,
                         ResearchBook(Book(id)), Embedding(id))
    /\ UNCHANGED <<taskStore, searchIndexes, batches, jobs, faults, requests,
                   inits, research, search, reply>>

\* books_list (GET /search?q=...&top_n=...) is called and awaits
\* init_beanie_models().
BooksSearch(q, top_n) ==
    /\ search.pc = "idle"
    /\ search' = [search EXCEPT !.op = "books_list", !.pc = "init_beanie_models",
                                !.init = NewInit, !.query = q, !.limit = top_n]
    /\ UNCHANGED <<searchIndexes, pipeline, inits, research, reply>>

\* The MCP tool search_books(search_query) is called and awaits
\* init_beanie_models(); its vector_similarity call has limit=5.
SearchBooks(q) ==
    /\ search.pc = "idle"
    /\ search' = [search EXCEPT !.op = "search_books", !.pc = "init_beanie_models",
                                !.init = NewInit, !.query = q, !.limit = SearchBooksLimit]
    /\ UNCHANGED <<searchIndexes, pipeline, inits, research, reply>>

\* How a search ends once vector_similarity has returned `books`.
\* books_list returns them.  search_books formats each with
\* book.book.as_string(), and BookResearchWithSimilarity has no attribute
\* `book`: with no book it returns the empty string, and with one it raises
\* AttributeError.
SearchReturns(op, books) ==
    IF op = "search_books" /\ books # <<>>
    THEN [pc |-> "raised", raises |-> "AttributeError"]
    ELSE [pc |-> "returned", raises |-> "none"]

\* The exception of the call the handler awaits leaves the handler, which
\* catches nothing.
SearchRaises == [search EXCEPT !.pc = "raised", !.raises = search.pc, !.init = NoInit]

\* The call that init_beanie_models() of the search awaits returns or
\* raises; when init_beanie_models has returned, generate_embedding(q) is
\* awaited next.
SearchInit(outcome) ==
    /\ search.pc = "init_beanie_models"
    /\ LET call == init_beanie_models(search.init, searchIndexes, outcome)
       IN /\ searchIndexes' = create_search_index(search.init, searchIndexes, outcome)
          /\ search' = IF ~InitOver(call) THEN [search EXCEPT !.init = call]
                       ELSE IF InitOutcome(call) = "ok"
                       THEN [search EXCEPT !.pc = "generate_embedding", !.init = NoInit]
                       ELSE SearchRaises
    /\ UNCHANGED <<pipeline, inits, research, reply>>

\* generate_embedding(q) returns the query vector, of direction q, or
\* raises; vector_similarity is awaited next.
SearchEmbed(outcome) ==
    /\ search.pc = "generate_embedding"
    /\ search' = IF outcome = "ok"
                 THEN [search EXCEPT !.pc = "vector_similarity"]
                 ELSE SearchRaises
    /\ UNCHANGED <<searchIndexes, pipeline, inits, research, reply>>

\* vector_similarity(query_vector=..., limit=...): the aggregation raises,
\* or the store examines `candidates` of the entries it holds now, the
\* $vectorSearch stage sent with limit and numCandidates yields `hits`, the $project stage passes them on as
\* the store reads it, and the documents are parsed and returned to the
\* function that asked, or the parse raises.
SearchAggregate(outcome) ==
    /\ search.pc = "vector_similarity"
    /\ IF outcome # "ok"
       THEN search' = SearchRaises
       ELSE \E candidates \in CandidateSets(researchStore,
                                             VectorSearchStage(search.limit).numCandidates) :
              \E hits \in VectorSearch(researchStore, Vector(NumDimensions, search.query),
                                       VectorSearchStage(search.limit).limit, candidates) :
                \E projection \in Projections :
                LET query_vector == Vector(NumDimensions, search.query)
                    books == vector_similarity(researchStore, query_vector, hits, projection)
                    end == IF books.raised
                           THEN [pc |-> "raised", raises |-> "BookResearchWithSimilarity"]
                           ELSE SearchReturns(search.op, books.value)
                IN search' =
                     [op         |-> search.op,
                      pc         |-> end.pc,
                      init       |-> NoInit,
                      raises     |-> end.raises,
                      query      |-> search.query,
                      limit      |-> search.limit,
                      candidates |-> candidates,
                      scores     |-> [e \in Indexed(researchStore) |->
                                        VectorSearchScore(query_vector, researchStore[e].embedding)],
                      hits       |-> hits,
                      projection |-> projection,
                      result     |-> books.value]
    /\ UNCHANGED <<searchIndexes, pipeline, inits, research, reply>>

\* Number of init_beanie_models calls of other requests and jobs that
\* overlap a search.
SearchInits == 1

SearchNext ==
    \/ SearchInsert
    \/ \E c \in 1..SearchInits : InitCall(c)
    \/ \E c \in 1..SearchInits : InitBeanie(c)
    \/ \E c \in 1..SearchInits : CreateCollection(c)
    \/ \E c \in 1..SearchInits : ListSearchIndexes(c)
    \/ \E c \in 1..SearchInits : ToList(c)
    \/ \E c \in 1..SearchInits : CreateSearchIndex(c)
    \/ \E q \in Directions, top_n \in 1..MaxLimit : BooksSearch(q, top_n)
    \/ \E q \in Directions : SearchBooks(q)
    \/ \E o \in CallOutcomes : SearchInit(o)
    \/ \E o \in CallOutcomes : SearchEmbed(o)
    \/ \E o \in CallOutcomes : SearchAggregate(o)

SearchSpec == Init /\ [][SearchNext]_vars

(* ------------------- a client's requests, answered -------------------- *)

\* One client's request is followed to its answer, await by await, while
\* the jobs of one research_book_async batch run and other clients delete
\* tasks and entries.

\* The handlers other clients call meanwhile.
Deleters == {"research_task_delete", "books_delete"}

\* The batch is posted.
ClientSubmit(n) ==
    /\ batches = <<>>
    /\ Submit(n)

\* Another client's request arrives while the followed request is being
\* handled.
ClientRequest(op, id) ==
    /\ \E r \in DOMAIN requests : requests[r].followed /\ requests[r].pc # "answered"
    /\ Request(op, id, FALSE)

ClientNext ==
    \/ \E n \in 0..MaxTasks : ClientSubmit(n)
    \/ \E b \in DOMAIN batches, o \in CallOutcomes : HandlerInit(b, o)
    \/ \E b \in DOMAIN batches, o \in CallOutcomes : HandlerInsert(b, o)
    \/ \E b \in DOMAIN batches : Respond(b)
    \/ \E t \in DOMAIN jobs, o \in CallOutcomes : JobResearch(t, o)
    \/ \E t \in DOMAIN jobs, o \in CallOutcomes, n \in EmbeddingLengths : JobEmbed(t, o, n)
    \/ \E t \in DOMAIN jobs, o \in CallOutcomes : JobInit(t, o)
    \/ \E t \in DOMAIN jobs, o \in WriteOutcomes : JobInsert(t, o)
    \/ \E t \in DOMAIN jobs, o \in WriteOutcomes : JobSaveSuccess(t, o)
    \/ \E t \in DOMAIN jobs, o \in WriteOutcomes : JobSaveFailure(t, o)
    \/ \E op \in Handlers : \E id \in Arguments(op) : Request(op, id, TRUE)
    \/ \E op \in Deleters : \E id \in Arguments(op) : ClientRequest(op, id)
    \/ \E r \in DOMAIN requests, o \in CallOutcomes : AwaitInit(r, o)
    \/ \E r \in DOMAIN requests, o \in CallOutcomes : AwaitGet(r, o)
    \/ \E r \in DOMAIN requests, o \in CallOutcomes : AwaitFind(r, o)
    \/ \E r \in DOMAIN requests, o \in CallOutcomes : AwaitWrite(r, o)
    \/ \E r \in DOMAIN requests, o \in CallOutcomes : AwaitProvider(r, o)

ClientSpec == Init /\ [][ClientNext /\ faults' <= MaxClientFaults]_vars

(* --------------- the pipeline when every call ends -------------------- *)

\* The research pipeline with no client deleting or clearing, with status
\* writes that succeed, and with every awaited call ending: a handler or a
\* job that awaits a call is eventually resumed.

\* The handler of request b is resumed: the call it awaits returns or
\* raises, or its response is sent.
HandlerStep(b) ==
    /\ b \in DOMAIN batches
    /\ \/ \E o \in CallOutcomes : HandlerInit(b, o)
       \/ \E o \in CallOutcomes : HandlerInsert(b, o)
       \/ Respond(b)

\* The job of task t is resumed: the call it awaits returns or raises; a
\* status write returns.
JobStep(t) ==
    /\ t \in DOMAIN jobs
    /\ \/ \E o \in CallOutcomes : JobResearch(t, o)
       \/ \E o \in CallOutcomes, n \in EmbeddingLengths : JobEmbed(t, o, n)
       \/ \E o \in CallOutcomes : JobInit(t, o)
       \/ \E o \in WriteOutcomes : JobInsert(t, o)
       \/ JobSaveSuccess(t, "ok")
       \/ JobSaveFailure(t, "ok")

LiveNext ==
    \/ \E n \in 0..MaxTasks : Submit(n)
    \/ \E b \in 1..MaxBatches : HandlerStep(b)
    \/ \E t \in 1..MaxTasks : JobStep(t)

\* Where every handler and every job is; each of their steps changes it.
Position == <<batches, [t \in DOMAIN jobs |-> <<jobs[t].pc, jobs[t].init>>]>>

LiveSpec ==
    /\ Init
    /\ [][LiveNext]_vars
    /\ \A b \in 1..MaxBatches : WF_Position(HandlerStep(b))
    /\ \A t \in 1..MaxTasks : WF_Position(JobStep(t))

(* ------------------------ reading the state --------------------------- *)

\* The persisted status of task t, "absent" when the TaskStore holds no
\* record of that id.
StatusOf(store, t) ==
    IF t \in DOMAIN store THEN store[t].status ELSE "absent"

\* The tasks of batch b whose records were persisted, in request order.
TasksOf(b) == { batches[b].tasks[k] : k \in 1..Len(batches[b].tasks) }

\* The job has returned or an exception has left it.
Over(t) == jobs[t].pc \in {"done", "crashed"}

\* The jobs that are awaiting a call.
InFlight == { t \in DOMAIN jobs : jobs[t].pc \in Running }

\* The calls of the try block before the SUCCESS write.
Steps12 == {"research", "embed", "init", "insert"}

\* The ResearchStore holds the entry of task t, carrying the task's request.
EntryOf(t) ==
    /\ BookId(t) \in DOMAIN researchStore
    /\ researchStore[BookId(t)].provided_title = jobs[t].req.title
    /\ researchStore[BookId(t)].provided_other_info = jobs[t].req.other_info

(* ----------------------------- the claims ----------------------------- *)

\* C1: a job in which the research call, the embedding call, the store
\* initialisation or the insert raised has inserted no ResearchStoreEntry and,
\* once it is over, has marked its TaskRecord FAILURE.  Stated on the jobs
\* whose FAILURE write returned (a FAILURE write that raises leaves the
\* record WORKING).
C1_RaiseMarksFailureNoEntry ==
    \A t \in DOMAIN jobs :
        (Over(t) /\ jobs[t].fault \in Steps12 /\ jobs[t].failure_write = "ok") =>
            /\ jobs[t].entry = 0
            /\ BookId(t) \notin DOMAIN researchStore
            /\ t \in DOMAIN taskStore => taskStore[t].status = FAILURE

\* C2: batch isolation.  In a batch in which no call but research calls has
\* raised: the batch is not aborted, a job that is over is followed by its
\* sibling, and once all jobs are over each item whose research raised is
\* FAILURE with no entry and every other item is SUCCESS with its entry
\* inserted (a record or an entry a client has deleted since is not there).
C2_BatchIsolation ==
    \A b \in DOMAIN batches :
        LET B == batches[b]
            OnlyResearchRaised ==
                \A t \in TasksOf(b) :
                    /\ jobs[t].fault \in {"none", "research"}
                    /\ jobs[t].failure_write \in {"none", "ok"}
        IN (B.pc \in {"background", "finished", "aborted"} /\ OnlyResearchRaised) =>
              /\ B.pc # "aborted"
              /\ \A k \in 1..(Len(B.tasks) - 1) :
                     Over(B.tasks[k]) => jobs[B.tasks[k + 1]].pc # "queued"
              /\ B.pc = "finished" =>
                   \A t \in TasksOf(b) :
                      IF jobs[t].fault = "research"
                      THEN /\ jobs[t].entry = 0
                           /\ BookId(t) \notin DOMAIN researchStore
                           /\ t \in DOMAIN taskStore => taskStore[t].status = FAILURE
                      ELSE /\ jobs[t].entry = BookId(t)
                           /\ t \in DOMAIN taskStore => taskStore[t].status = SUCCESS
                           /\ Removed = 0 => (EntryOf(t) /\ t \in DOMAIN taskStore)

\* C2 witness: a batch of two has finished; the research of its first item
\* raised and its record is FAILURE, the second is SUCCESS with its entry.
C2_Witness ==
    \E b \in DOMAIN batches :
        /\ batches[b].pc = "finished"
        /\ Len(batches[b].tasks) = 2
        /\ jobs[batches[b].tasks[1]].fault = "research"
        /\ StatusOf(taskStore, batches[b].tasks[1]) = FAILURE
        /\ jobs[batches[b].tasks[2]].fault = "none"
        /\ StatusOf(taskStore, batches[b].tasks[2]) = SUCCESS
        /\ EntryOf(batches[b].tasks[2])
        /\ BookId(batches[b].tasks[1]) \notin DOMAIN researchStore

\* C3: a task whose persisted status is FAILURE has no ResearchStoreEntry
\* inserted by its own job.
C3_FailedTaskLeavesNoEntry ==
    \A t \in DOMAIN jobs :
        StatusOf(taskStore, t) = FAILURE => jobs[t].entry = 0

\* C4: the handler persists each request's TaskRecord, WORKING, by the time
\* it adds the request's job; and the response it returns is one record per
\* request, in request order, each with the id of its TaskRecord and status
\* WORKING, returned while every job of the batch is still to start.
C4_PersistThenDispatchThenReturn ==
    /\ [][\A t \in DOMAIN jobs' \ DOMAIN jobs :
             /\ StatusOf(taskStore', t) = WORKING
             /\ taskStore'[t].title = jobs'[t].req.title
             /\ taskStore'[t].other_info = jobs'[t].req.other_info
             /\ jobs'[t].pc = "queued"]_vars
    /\ [](\A b \in DOMAIN batches :
             LET B == batches[b]
             IN /\ B.pc \in {"init", "insert", "error"} => B.response = <<>>
                /\ B.pc \in {"responding", "background", "finished", "aborted"} =>
                      /\ Len(B.response) = Len(B.books)
                      /\ \A k \in 1..Len(B.books) :
                            /\ B.response[k].id = B.tasks[k]
                            /\ B.response[k].title = B.books[k].title
                            /\ B.response[k].other_info = B.books[k].other_info
                            /\ B.response[k].status = WORKING
                /\ B.pc = "responding" =>
                      \A t \in TasksOf(b) : jobs[t].pc = "queued")

\* C4 witness: a batch of two has been answered and a research of it has
\* since returned.
C4_Witness ==
    \E b \in DOMAIN batches :
        /\ Len(batches[b].response) = 2
        /\ \E t \in TasksOf(b) : jobs[t].pc \notin {"queued", "research"}

\* C5: research, embed, persist are sequential within a job.  The embedding
\* call is awaited only with the result of a research call that returned; the
\* store is initialised and the entry inserted only with the vector of an
\* embedding call that returned; and once a call has raised the job awaits
\* none of the later stages, and has inserted nothing when the call that
\* raised comes before the insert.
C5_StagesSequential ==
    \A t \in DOMAIN jobs :
        LET j == jobs[t]
        IN /\ j.pc \in {"embed", "init", "insert", "save_success"} =>
                 /\ j.research_output = ResearchBook(j.req)
                 /\ j.fault = "none"
           /\ j.pc \in {"init", "insert", "save_success"} => j.embedding # 0
           /\ j.pc \in {"queued", "research"} =>
                 /\ j.research_output = NoResearchOutput
                 /\ j.embedding = 0
                 /\ j.entry = 0
           /\ j.pc = "embed" => (j.embedding = 0 /\ j.entry = 0)
           /\ j.pc \in {"init", "insert"} => j.entry = 0
           /\ j.fault = "research" => j.research_output = NoResearchOutput
           /\ j.fault \in {"research", "embed"} => j.embedding = 0
           /\ j.fault \in {"research", "embed", "init"} => j.entry = 0
           /\ j.fault \in Steps12 => j.pc \in {"save_failure", "done", "crashed"}

\* C5 witness: the embedding call of a job has raised and the job is over.
C5_Witness ==
    \E t \in DOMAIN jobs : jobs[t].fault = "embed" /\ jobs[t].pc = "done"

\* C6: a TaskRecord whose persisted status is SUCCESS belongs to a job whose
\* insert has returned; the entry carries the task's title and other_info,
\* and it is in the ResearchStore as long as no client has deleted anything.
C6_EntryBeforeSuccess ==
    \A t \in DOMAIN jobs :
        StatusOf(taskStore, t) = SUCCESS =>
            /\ jobs[t].entry = BookId(t)
            /\ jobs[t].pc \in {"save_failure", "done", "crashed"}
            /\ BookId(t) \in DOMAIN researchStore => EntryOf(t)
            /\ Removed = 0 => EntryOf(t)

\* C6 witness: a task is SUCCESS and its entry is in the ResearchStore.
C6_Witness ==
    \E t \in DOMAIN jobs : StatusOf(taskStore, t) = SUCCESS /\ EntryOf(t)

\* C7: a TaskRecord is created WORKING, its persisted status moves only from
\* WORKING to SUCCESS or from WORKING to FAILURE, and it is never WORKING
\* again once it has been SUCCESS or FAILURE.  (A record a client has deleted
\* is no longer followed.)
C7_NoBackwardTransition ==
    [][\A t \in 1..MaxTasks :
          LET old == StatusOf(taskStore, t)
              new == StatusOf(taskStore', t)
          IN \/ new = old
             \/ new = "absent"
             \/ old = "absent" /\ t \in DOMAIN jobs
             \/ old = "absent" /\ new = WORKING
             \/ old = WORKING /\ new \in {SUCCESS, FAILURE}]_vars

\* C8: when the FAILURE write of a job raises, only that task is affected:
\* the background tasks of the batch end only after every other job of the
\* batch has run.
C8_FailedStatusWriteIsLocal ==
    \A b \in DOMAIN batches :
        batches[b].pc \in {"finished", "aborted"} =>
            \A t \in TasksOf(b) : Over(t)

\* C9: a concurrency gate bounds the jobs in flight by a number that does not
\* grow with the number of submissions: with MaxBatches submissions, fewer
\* than MaxBatches jobs are awaiting a call at any time.
C9_BoundedConcurrency ==
    Cardinality(InFlight) < MaxBatches

\* C10: every entry of the ResearchStore holds an embedding of exactly
\* NumDimensions values, an insert of any other vector having been rejected.
C10_EmbeddingDimensions ==
    \A e \in DOMAIN researchStore : researchStore[e].embedding = NumDimensions

\* The create_search_index commands issued so far.
CreatesIssued == { c \in 1..MaxInits : inits[c].creates > 0 }

\* C11: index creation is idempotent.  A call made after another call has
\* returned finds 'vector_index' listed, issues no create_search_index and
\* raises nothing, and the collection has the one index of that name.
C11_IndexCreationIdempotent ==
    \A c \in 1..MaxInits :
        inits[c].after =>
            /\ searchIndexes = {"vector_index"}
            /\ inits[c].creates = 0
            /\ inits[c].pc \in {"init_beanie", "create_collection", "list", "to_list", "done"}
            /\ inits[c].pc \in {"to_list", "done"} => inits[c].existing = {"vector_index"}

\* C11 witness: a call has created the index and returned, and a call made
\* after it has returned too.
C11_Witness ==
    \E c, d \in 1..MaxInits :
        /\ inits[c].pc = "done" /\ inits[c].creates = 1 /\ ~inits[c].after
        /\ inits[d].pc = "done" /\ inits[d].after

\* C12: over all calls of init_beanie_models, however they overlap,
\* create_search_index is issued at most once and no call raises.
C12_IndexCreatedOnce ==
    /\ Cardinality(CreatesIssued) <= 1
    /\ \A c \in 1..MaxInits : inits[c].pc # "raised"

\* The places of the web chunks in a chunk list.
WebChunks(chunks) == { i \in DOMAIN chunks : chunks[i].web }

\* The place of the first web chunk of url u.
FirstOf(chunks, u) ==
    CHOOSE i \in WebChunks(chunks) :
        /\ chunks[i].uri = u
        /\ \A j \in WebChunks(chunks) : chunks[j].uri = u => i <= j

\* The search stage has returned and _get_unique_sources has made its list.
SourcesMade == research.pc # "idle" /\ research.raised_in \notin {"search", "sources"}

\* C13: source deduplication.  The list _get_unique_sources makes of the
\* chunks of a response holds the url of every web chunk exactly once, with
\* the title of the first chunk of that url, and holds no other url.
C13_SourcesDeduplicated ==
    SourcesMade =>
        LET chunks == research.response.chunks
            sources == research.sources
        IN /\ \A i \in WebChunks(chunks) :
                  /\ Cardinality({ k \in DOMAIN sources : sources[k].url = chunks[i].uri }) = 1
                  /\ \A k \in DOMAIN sources :
                         sources[k].url = chunks[i].uri =>
                             sources[k].name = chunks[FirstOf(chunks, chunks[i].uri)].title
           /\ \A k \in DOMAIN sources :
                  \E i \in WebChunks(chunks) : chunks[i].uri = sources[k].url

\* C13 witness: research_book has returned for a response that cites one url
\* twice, under two titles; the sources hold it once, under the first title.
C13_Witness ==
    /\ research.pc = "returned"
    /\ \E i, j \in WebChunks(research.response.chunks) :
           /\ i < j
           /\ research.response.chunks[i].uri = research.response.chunks[j].uri
           /\ research.response.chunks[i].title # research.response.chunks[j].title
           /\ research.sources =
                  <<[name |-> research.response.chunks[i].title,
                     url  |-> research.response.chunks[i].uri]>>

\* The response cites no source: no grounding metadata, no chunk list or an
\* empty one, or no web chunk in it.
NoSourcesCited(response) ==
    /\ response.candidates
    /\ WebChunks(response.chunks) = {}

\* C14: a search stage that returns no sources is not an error.  For such a
\* response _get_unique_sources returns the empty list, and research_book
\* returns a BookResearchOutput with sources = [] unless the structuring
\* stage fails.
C14_NoSourcesIsNotAnError ==
    (research.pc # "idle" /\ research.raised_in # "search"
        /\ NoSourcesCited(research.response)) =>
        /\ research.raised_in # "sources"
        /\ research.sources = <<>>
        /\ research.raised_in = "none" => research.pc \in {"structure", "returned"}
        /\ research.pc = "returned" => research.output[1].sources = <<>>

\* C14 witness: research_book has returned an output without sources for a
\* response whose chunks are not web chunks.
C14_Witness ==
    /\ research.pc = "returned"
    /\ research.response.chunks # <<>>
    /\ NoSourcesCited(research.response)
    /\ research.output[1].sources = <<>>

\* C15: research_book never fabricates a record.  It returns an output only
\* when both stages succeeded, and then info is the record the structuring
\* stage parsed and sources are the deduplicated sources of the search
\* stage; when a provider call raises, or when the structuring stage parsed
\* no record, it raises and returns no output.
C15_NoFabricatedRecord ==
    /\ research.pc = "returned" =>
          /\ research.raised_in = "none"
          /\ research.parsed # None
          /\ research.output =
                 <<[info |-> [title |-> research.parsed], sources |-> research.sources]>>
          /\ get_unique_sources(research.response) = Returns(research.sources)
    /\ research.pc # "returned" => research.output = <<>>
    /\ research.raised_in # "none" <=> research.pc = "raised"
    /\ research.pc = "raised" =>
          \/ research.raised_in \in {"search", "structure"}
          \/ research.raised_in = "sources" /\ get_unique_sources(research.response).raised
          \/ research.raised_in = "output" /\ research.parsed = None

\* C15 witness: the structuring stage parsed no record and research_book has
\* raised.
C15_Witness ==
    /\ research.pc = "raised"
    /\ research.raised_in = "output"
    /\ research.parsed = None
    /\ research.output = <<>>

\* vector_similarity has returned its list to the function that asked for
\* it: to books_list, which has returned it, or to search_books, which
\* has raised over it or returned.
VectorSimilarityReturned ==
    search.pc = "returned" \/ search.raises = "AttributeError"

\* The entries a list of results names.
Returned(result) == { result[i].id : i \in DOMAIN result }

\* C16 (as stated): a vector search with limit k returns at most k entries,
\* best score first, and no stored entry it leaves out has a better score
\* than one it returns.
C16_TopKByScore ==
    VectorSimilarityReturned =>
        /\ Len(search.result) <= search.limit
        /\ \A i, j \in DOMAIN search.result :
               i < j => search.result[i].similarity >= search.result[j].similarity
        /\ \A e \in DOMAIN search.scores \ Returned(search.result) :
               \A i \in DOMAIN search.result :
                   search.result[i].similarity >= search.scores[e]

\* C16 (amended): a vector search with limit k returns at most k entries,
\* best score first, and no entry that the store's approximate search
\* examined for the query and that the result leaves out has a better score
\* than one the result holds.
C16_TopKAmongCandidates ==
    VectorSimilarityReturned =>
        /\ Len(search.result) <= search.limit
        /\ \A i, j \in DOMAIN search.result :
               i < j => search.result[i].similarity >= search.result[j].similarity
        /\ \A e \in search.candidates \ Returned(search.result) :
               \A i \in DOMAIN search.result :
                   search.result[i].similarity >= search.scores[e]

\* C16 witness: a search with limit 2 has returned two entries of different
\* scores, has left out a candidate it examined that scores worse than both,
\* and has not examined an indexed entry that scores better than the second
\* entry it returned.
C16_Witness ==
    /\ search.pc = "returned"
    /\ search.limit = 2
    /\ Len(search.result) = 2
    /\ search.result[1].similarity > search.result[2].similarity
    /\ \E e \in search.candidates \ Returned(search.result) :
           search.scores[e] < search.result[2].similarity
    /\ \E e \in DOMAIN search.scores \ search.candidates :
           search.scores[e] > search.result[2].similarity

\* C17: every result vector_similarity returns carries the stored entry
\* (provided_title, provided_other_info, research_output and embedding as
\* persisted) and the similarity score of that entry, and the results are
\* those of the hits, in their order.
C17_ResultsExposeEntryAndScore ==
    VectorSimilarityReturned =>
        /\ Len(search.result) = Len(search.hits)
        /\ \A i \in DOMAIN search.result :
               LET doc == search.result[i]
                   e == researchStore[search.hits[i]]
               IN /\ BookResearchWithSimilarity \subseteq DOMAIN doc
                  /\ doc.provided_title = e.provided_title
                  /\ doc.provided_other_info = e.provided_other_info
                  /\ doc.research_output = e.research_output
                  /\ doc.embedding = e.embedding
                  /\ doc.similarity = search.scores[search.hits[i]]

\* C17 witness: a search has returned two entries with their scores.
C17_Witness ==
    /\ search.pc = "returned"
    /\ Len(search.result) = 2
    /\ search.result[1].provided_title # search.result[2].provided_title
    /\ search.result[1].similarity > search.result[2].similarity


\* C18: the quick research request has no persistence: whether research_book
\* returned or raised, the step that answers it leaves the TaskStore and the
\* ResearchStore as they were; an exception of research_book reaches the
\* caller as an error answer with no record, and a returned output reaches
\* the caller as it is.
C18_QuickResearchHasNoPersistence ==
    [][(reply.op = "none" /\ reply'.op = "research")
        => /\ taskStore' = taskStore
           /\ researchStore' = researchStore
           /\ reply'.raises = "research_book"
                => reply'.status = 500 /\ reply'.body = <<>>
           /\ reply'.raises = "none"
                => reply'.status = 200 /\ reply'.body = <<ResearchBook(Book(reply'.id))>>]_vars

\* C18 witness: a quick research request whose research_book raised has been
\* answered while both stores held documents.
C18_Witness ==
    /\ reply.op = "research"
    /\ reply.raises = "research_book"
    /\ taskStore # Empty
    /\ researchStore # Empty


\* C19: there is no automatic retry.  The job of a TaskRecord awaits
\* research_book only as its first call, coming from the queue, and never
\* comes back to it or to the queue; a job that is over does nothing more;
\* and a task whose persisted status is FAILURE keeps that status in every
\* step but a client's delete or clear, which removes the record.
C19_NoAutomaticRetry ==
    [][\A t \in DOMAIN jobs :
          /\ jobs'[t].pc = "queued" => jobs[t].pc = "queued"
          /\ jobs'[t].pc = "research" => jobs[t].pc \in {"queued", "research"}
          /\ Over(t) => jobs'[t] = jobs[t]
          /\ StatusOf(taskStore, t) = FAILURE
               => /\ StatusOf(taskStore', t) \in {FAILURE, "absent"}
                  /\ StatusOf(taskStore', t) = "absent" => Removed' = Removed + 1
                  /\ jobs'[t].pc \notin {"queued", "research"}]_vars

\* C19 witness: the research call of a job raised, the job wrote FAILURE and
\* returned, and the record is still FAILURE while a later job of the batch
\* has run its own research call.
C19_Witness ==
    \E t \in DOMAIN jobs, u \in DOMAIN jobs :
        /\ jobs[t].fault = "research"
        /\ jobs[t].pc = "done"
        /\ StatusOf(taskStore, t) = FAILURE
        /\ u > t
        /\ jobs[u].pc \notin {"queued", "research"}


\* C20: a lookup or a delete of a task id the TaskStore does not hold is
\* answered 404 'Research task not found', init_beanie_models() having
\* returned and the store having answered the lookup; and no step of such a
\* request before its task.delete() changes the TaskStore or touches a job
\* or a batch.
C20_MissingTaskIsNotFound ==
    [][\A r \in DOMAIN requests :
          (/\ requests[r].followed
           /\ requests[r].op \in {"research_task_get", "research_task_delete"}
           /\ requests'[r] # requests[r]
           /\ requests[r].pc # "delete")
          => /\ taskStore' = taskStore
             /\ jobs' = jobs
             /\ batches' = batches
             /\ (/\ requests'[r].pc = "answered"
                 /\ faults' = faults
                 /\ reply'.raises # "init_beanie_models"
                 /\ requests[r].id \notin DOMAIN taskStore)
                => /\ reply'.op = requests[r].op
                   /\ reply'.id = requests[r].id
                   /\ reply'.status = 404
                   /\ reply'.detail = "Research task not found"
                   /\ reply'.body = <<>>]_vars


\* C21: a delete of an entry id the ResearchStore does not hold when the
\* handler looks it up, the lookup not raising, is answered 404 'Book not
\* found' in that step, which leaves the ResearchStore as it was.
C21_MissingBookIsNotFound ==
    [][\A r \in DOMAIN requests :
          (/\ requests[r].followed
           /\ requests[r].op = "books_delete"
           /\ requests[r].pc = "get"
           /\ requests'[r] # requests[r]
           /\ faults' = faults
           /\ requests[r].id \notin DOMAIN researchStore)
          => /\ reply'.op = "books_delete"
             /\ reply'.status = 404
             /\ reply'.detail = "Book not found"
             /\ researchStore' = researchStore]_vars

\* C22: a research_and_insert request none of whose awaited calls misbehaved
\* is answered 200 with the one entry it has added to the ResearchStore, an
\* entry made of the request's title and other info, the research output and
\* an embedding.
C22_ResearchAndInsertInserts ==
    [][(/\ reply.op = "none"
        /\ reply'.op = "research_and_insert"
        /\ faults' = faults)
        => /\ reply'.status = 200
           /\ \E e \in DOMAIN researchStore' \ DOMAIN researchStore :
                 /\ DOMAIN researchStore' = DOMAIN researchStore \cup {e}
                 /\ researchStore'[e].provided_title = Book(reply'.id).title
                 /\ researchStore'[e].provided_other_info = Book(reply'.id).other_info
                 /\ researchStore'[e].research_output = ResearchBook(Book(reply'.id))
                 /\ reply'.body = <<researchStore'[e]>>
           /\ \A e \in DOMAIN researchStore : researchStore'[e] = researchStore[e]]_vars


\* C23: a ResearchStoreEntry is created once and never mutated.  In every
\* step, an entry that stays in the store keeps its content; an entry leaves
\* the store only by a client's delete or clear; and an entry that appears
\* is the one entry of a job at its insert, whose research call returned
\* and which has inserted none before, made of the job's request, research
\* output and embedding.
C23_EntriesCreatedOnceNeverMutated ==
    [][researchStore' # researchStore =>
          /\ \A e \in DOMAIN researchStore \cap DOMAIN researchStore' :
                researchStore'[e] = researchStore[e]
          /\ DOMAIN researchStore \ DOMAIN researchStore' # {} => Removed' = Removed + 1
          /\ \A e \in DOMAIN researchStore' \ DOMAIN researchStore :
                \E t \in DOMAIN jobs :
                   /\ BookId(t) = e
                   /\ jobs[t].pc = "insert"
                   /\ jobs[t].entry = 0
                   /\ jobs'[t].entry = e
                   /\ jobs[t].research_output = ResearchBook(jobs[t].req)
                   /\ researchStore'[e] = BookResearch(jobs[t].req.title, jobs[t].req.other_info,
                                                       jobs[t].research_output, jobs[t].embedding)
          /\ Cardinality(DOMAIN researchStore' \ DOMAIN researchStore) <= 1]_vars

\* C23 witness: the entry of a job that is over is in the store, as it was
\* inserted, after a later job has inserted its own.
C23_Witness ==
    \E t \in DOMAIN jobs, u \in DOMAIN jobs :
        /\ t < u
        /\ Over(t)
        /\ EntryOf(t)
        /\ researchStore[BookId(t)].research_output = ResearchBook(jobs[t].req)
        /\ jobs[u].entry = BookId(u)
        /\ BookId(u) \in DOMAIN researchStore


\* C24: each TaskRecord has one writer.  In every step, a record that is in
\* the TaskStore afterwards and was not there before, or was there with
\* another content, is either the record the handler creates in WORKING for
\* an item that has no job yet, or the record of a job that is at one of its
\* two status writes and leaves it in this step, written with that job's
\* status: no other job and no lookup changes it.
C24_OneWriterPerTask ==
    [][\A t \in DOMAIN taskStore' :
          (t \notin DOMAIN taskStore \/ taskStore'[t] # taskStore[t])
          => IF t \in DOMAIN jobs
             THEN /\ jobs[t].pc \in {"save_success", "save_failure"}
                  /\ jobs'[t].pc # jobs[t].pc
                  /\ taskStore'[t] = ResearchTask(jobs[t].req, jobs[t].status)
             ELSE /\ t \notin DOMAIN taskStore
                  /\ t \in DOMAIN jobs'
                  /\ taskStore'[t].status = WORKING]_vars

\* C24 witness: two jobs of the batch are over, the one having written
\* SUCCESS and the other FAILURE to their own records, and a lookup of a
\* record was answered with it.
C24_Witness ==
    /\ reply.op = "research_task_get"
    /\ reply.status = 200
    /\ \E t \in DOMAIN jobs, u \in DOMAIN jobs :
          /\ Over(t) /\ Over(u)
          /\ StatusOf(taskStore, t) = SUCCESS
          /\ StatusOf(taskStore, u) = FAILURE


\* C25: when every call ends and status writes succeed, a TaskRecord that is
\* WORKING eventually has status SUCCESS or FAILURE.
C25_EveryTaskTerminates ==
    \A t \in 1..MaxTasks :
        (StatusOf(taskStore, t) = WORKING) ~> (StatusOf(taskStore, t) \in {SUCCESS, FAILURE})


\* C27: every TaskRecord the handler persisted has its job run, also when
\* the creation of a later record of the batch raised: no request whose
\* handler has raised holds a task that is persisted in WORKING and whose
\* job is still queued, for such a job is never run.
C27_PersistedTaskIsDispatched ==
    \A t \in DOMAIN jobs :
        batches[jobs[t].batch].pc = "error"
        => ~(StatusOf(taskStore, t) = WORKING /\ jobs[t].pc = "queued")


\* C26: a TaskRecord removed while its job is still running stays removed:
\* in no step does the record of a dispatched task that the TaskStore does
\* not hold come back to the TaskStore or to a listing of it.
C26_DeletedTaskStaysDeleted ==
    [][\A t \in DOMAIN jobs :
          t \notin DOMAIN taskStore
          => /\ t \notin DOMAIN taskStore'
             /\ t \notin research_tasks_list(taskStore', {WORKING, SUCCESS, FAILURE})]_vars


\* C28: a terminal status is final: in no step does the persisted status of
\* a TaskRecord go from SUCCESS to FAILURE or from FAILURE to SUCCESS.
C28_TerminalStatusIsFinal ==
    [][\A t \in DOMAIN taskStore \cap DOMAIN taskStore' :
          /\ taskStore[t].status = SUCCESS => taskStore'[t].status # FAILURE
          /\ taskStore[t].status = FAILURE => taskStore'[t].status # SUCCESS]_vars


\* The places of the web chunks whose url no earlier web chunk has.
FirstPlaces(chunks) ==
    { i \in WebChunks(chunks) :
        \A j \in WebChunks(chunks) : chunks[j].uri = chunks[i].uri => i <= j }

\* The k-th of these places, in the order of the chunks.
NthFirstPlace(chunks, k) ==
    CHOOSE i \in FirstPlaces(chunks) :
        Cardinality({ j \in FirstPlaces(chunks) : j < i }) = k - 1

\* C29: the list _get_unique_sources returns is the first-occurrence
\* subsequence of the web chunks: it has one source for each web chunk that
\* is the first of its url, in the order of these chunks, each with the url
\* and the title of its chunk, and nothing else.
C29_FirstOccurrenceSubsequence ==
    SourcesMade =>
        LET chunks == research.response.chunks
            sources == research.sources
        IN /\ Len(sources) = Cardinality(FirstPlaces(chunks))
           /\ \A k \in DOMAIN sources :
                  sources[k] = [name |-> chunks[NthFirstPlace(chunks, k)].title,
                                url  |-> chunks[NthFirstPlace(chunks, k)].uri]

\* C29 witness: of a response whose chunks are a web chunk, a chunk that is
\* no web chunk or repeats the first url, and a web chunk of another url,
\* the sources are the first and the last, in that order.
C29_Witness ==
    /\ research.pc \in {"structure", "returned"}
    /\ Len(research.response.chunks) = 3
    /\ LET chunks == research.response.chunks
       IN /\ chunks[1].web /\ chunks[3].web
          /\ chunks[1].uri # chunks[3].uri
          /\ ~chunks[2].web \/ chunks[2].uri = chunks[1].uri
          /\ research.sources = <<[name |-> chunks[1].title, url |-> chunks[1].uri],
                                  [name |-> chunks[3].title, url |-> chunks[3].uri]>>

====
